---------------------------- MODULE Spec2Model ----------------------------
(***************************************************************************)
(* Model of the alloy/memlayout Layout engine (layout.hpp, utils.hpp).     *)
(*                                                                         *)
(* size_t is an unsigned word of Bits bits (the real build has 64; the     *)
(* width is scaled so that the whole word can be explored).  The byte      *)
(* count sizeof(size_t) keeps its LP64 value 8, because the code uses it   *)
(* as a number (the modulus of wrap_op, the shift distance of checked_mul) *)
(* and 2^Bits stays a multiple of 8, so small operands behave exactly as   *)
(* on the 64-bit build.                                                    *)
(*                                                                         *)
(* Three specifications share the definitions:                             *)
(*   Spec      the public interface as a state machine: the caller holds   *)
(*             the optional<Layout> returned by the last call and calls    *)
(*             the next operation on it;                                   *)
(*   SpecFn    the member functions as pure functions of the receiver's    *)
(*             fields: the receiver is any (size_, align_) pair the        *)
(*             private constructor can build;                              *)
(*   SpecArith the arithmetic utilities as pure functions of (x, y).       *)
(***************************************************************************)
EXTENDS Integers, Naturals, Sequences, FiniteSets, TLC

\* ------------------------------------------------------------------ bounds
Bits == 8          \* width of size_t in the model
MaxSmall == 17     \* small operands are 0..MaxSmall, large ones MAX_SIZE-MaxSmall..MAX_SIZE
MaxCount == 5      \* repeat counts 0..MaxCount (plus the fixed large ones)
MaxAlign == 8      \* alignment arguments 0..MaxAlign (plus the fixed large ones)

\* --------------------------------------------------------- program constants
SizeofSizeT == 8   \* sizeof(size_t), in bytes

RECURSIVE TwoPow(_)
TwoPow(n) == IF n = 0 THEN 1 ELSE 2 * TwoPow(n - 1)

Modulus == TwoPow(Bits)
MAX_SIZE == Modulus - 1          \* std::numeric_limits<size_t>::max()

\* ------------------------------------------------- unsigned word arithmetic
UAdd(x, y) == (x + y) % Modulus
USub(x, y) == (x - y + Modulus) % Modulus
UMul(x, y) == (x * y) % Modulus
Shr(x, n) == x \div TwoPow(n)
Shl(x, n) == (x * TwoPow(n)) % Modulus
BitNot(x) == MAX_SIZE - x

RECURSIVE BitAnd(_, _)
BitAnd(x, y) ==
    IF x = 0 \/ y = 0 THEN 0
    ELSE (x % 2) * (y % 2) + 2 * BitAnd(x \div 2, y \div 2)

RECURSIVE BitOr(_, _)
BitOr(x, y) ==
    IF x = 0 THEN y
    ELSE IF y = 0 THEN x
    ELSE (IF x % 2 = 1 \/ y % 2 = 1 THEN 1 ELSE 0) + 2 * BitOr(x \div 2, y \div 2)

Max(a, b) == IF a < b THEN b ELSE a

\* ------------------------------------------------------------ std::optional
\* optional<size_t>
NoneSz == [has |-> FALSE, val |-> 0]
SomeSz(v) == [has |-> TRUE, val |-> v]

\* ---------------------------------------------------------------- utils.hpp
is_power_of_two(n) ==
    IF n = 0 THEN FALSE
    ELSE BitAnd(n, USub(n, 1)) = 0

bit_clear_range(value, offset, n) ==
    LET mask == Shr(MAX_SIZE, Bits - n)
    IN  BitAnd(value, BitNot(Shl(mask, offset)))

\* wrap_op(op, n, x, y) with op_x_y the value of op(x, y)
wrap_op(op_x_y, n) == op_x_y % n

wrap_add(x, y) == wrap_op(UAdd(x, y), SizeofSizeT)

wrap_sub(x, y) == wrap_op(USub(x, y), SizeofSizeT)

\* checked_op(op, check, x, y) with raw_result the value of op(x, y) and checked
\* the value of check(raw_result, x, y) converted to bool by the `if`
checked_op(raw_result, checked) ==
    IF checked THEN NoneSz ELSE SomeSz(raw_result)

\* add_overflow_test with `<=` written for `<`
add_overflow_test_le(res, x, y) == res <= BitOr(x, y)

\* the comparison inside checked_add's check lambda
add_overflow_test(res, x, y) == res < BitOr(x, y)

\* checked_add's check lambda: an empty optional when the comparison is true,
\* an optional holding res otherwise
add_check_lambda(res, x, y) ==
    IF add_overflow_test(res, x, y) THEN NoneSz ELSE SomeSz(res)

\* in the `if` of checked_op the lambda's optional converts to bool as has_value()
add_check(res, x, y) ==
    LET o == add_check_lambda(res, x, y)
    IN  o.has

checked_add(x, y) == checked_op(UAdd(x, y), add_check(UAdd(x, y), x, y))

\* checked_mul's check lambda returns a size_t; non-zero converts to true
mul_check(res, x, y) ==
    LET half == SizeofSizeT \div 2
        a == UMul(Shr(x, half), bit_clear_range(y, 0, half))
        b == UMul(bit_clear_range(x, 0, half), Shr(y, half))
    IN  UAdd(UAdd(UMul(Shr(x, half), Shr(y, half)), Shr(a, half)), Shr(b, half)) # 0

checked_mul(x, y) == checked_op(UMul(x, y), mul_check(UMul(x, y), x, y))

\* --------------------------------------------------------------- layout.hpp
\* the private constructor Layout(size, align): stores any pair
Layout(size, align) == [size |-> size, align |-> align]

\* optional<Layout>
NoLayout == [has |-> FALSE, val |-> Layout(0, 0)]
SomeLayout(l) == [has |-> TRUE, val |-> l]

from_size_align(size, align) ==
    IF align # 0 /\ is_power_of_two(align) THEN NoLayout
    ELSE IF size > USub(MAX_SIZE, USub(align, 1)) THEN NoLayout
    ELSE SomeLayout(Layout(size, align))

\* Layout(): the public default constructor
DefaultLayout == Layout(0, 0)

\* size_align<T>(): sizeof(T), alignof(T) of the types the repository uses (LP64)
Types == {"char", "uint16_t", "int", "double", "A"}
size_align(T) ==
    CASE T = "char"     -> <<1, 1>>
      [] T = "uint16_t" -> <<2, 2>>
      [] T = "int"      -> <<4, 4>>
      [] T = "double"   -> <<8, 8>>
      [] T = "A"        -> <<24, 8>>

create(T) == from_size_align(size_align(T)[1], size_align(T)[2])

align_to(self, align) == from_size_align(self.size, Max(self.align, align))

\* the source writes `!` (logical not), whose bool result is promoted to 0 or 1
LogicalNot(v) == IF v = 0 THEN 1 ELSE 0

required_padding(self, align) ==
    LET size == self.size
        rounded_up_size == BitAnd(wrap_sub(wrap_add(size, align), 1),
                                  LogicalNot(wrap_sub(align, 1)))
    IN  wrap_sub(rounded_up_size, size)

\* Result of a member function: thrown is TRUE when optional::value() is called
\* on an empty optional (bad_optional_access leaving a noexcept function:
\* std::terminate); otherwise has/layout/aux are the returned optional, the
\* Layout in it and the size_t beside it (offset, stride or padding).
Ret(has, layout, aux) == [thrown |-> FALSE, has |-> has, layout |-> layout, aux |-> aux]
Thrown == [thrown |-> TRUE, has |-> FALSE, layout |-> Layout(0, 0), aux |-> 0]
Absent == Ret(FALSE, Layout(0, 0), 0)
OfOptional(o) == Ret(o.has, o.val, 0)

pad_to_align(self) ==
    LET new_size == UAdd(required_padding(self, self.align), self.size)
        o == from_size_align(new_size, self.align)
    IN  IF o.has THEN Ret(TRUE, o.val, 0) ELSE Thrown

repeat(self, n) ==
    LET padded_size == UAdd(self.size, required_padding(self, self.align))
        allocate_size == checked_mul(padded_size, n)
    IN  IF allocate_size.has
        THEN LET o == from_size_align(allocate_size.val, self.align)
             IN  IF o.has THEN Ret(TRUE, o.val, padded_size) ELSE Thrown
        ELSE Absent

repeat_packed(self, n) ==
    LET sz == checked_mul(self.size, n)
    IN  IF sz.has
        THEN LET layout == from_size_align(sz.val, self.align)
             IN  IF layout.has THEN OfOptional(layout) ELSE Absent
        ELSE Absent

extend(self, after) ==
    LET new_align == Max(self.align, after.align)
        padding == required_padding(self, new_align)
        offset == checked_add(self.size, padding)
    IN  IF offset.has
        THEN LET new_size == checked_add(offset.val, after.size)
             IN  IF new_size.has
                 THEN LET layout == from_size_align(new_size.val, new_align)
                      IN  IF layout.has THEN Ret(TRUE, layout.val, offset.val)
                          ELSE Absent
                 ELSE Absent
        ELSE Absent

extend_packed(self, after) ==
    LET new_size == checked_add(self.size, after.size)
    IN  IF new_size.has
        THEN OfOptional(from_size_align(new_size.val, self.align))
        ELSE Absent

\* ------------------------------------------------------------ input spaces
SmallVals == 0..MaxSmall
LargeVals == (MAX_SIZE - MaxSmall)..MAX_SIZE
WordVals == SmallVals \cup LargeVals \cup {TwoPow(Bits - 1) - 1, TwoPow(Bits - 1)}
AllWords == 0..MAX_SIZE

ArgSizes == WordVals
ArgAligns == (0..MaxAlign) \cup {TwoPow(Bits - 1), MAX_SIZE}
Counts == (0..MaxCount) \cup {16, TwoPow(Bits - 1), MAX_SIZE}
AfterSizes == {0, 1, 3, 4, 8, MAX_SIZE}
AfterAligns == {0, 1, 3, 4, 8}

\* ------------------------------------------------------------------- state
VARIABLES
    mode,   \* "api": layouts come from the public interface; "fn": from the private constructor
    pc,     \* "ready"; "done" once the function of SpecFn has been applied;
            \* "terminated" after std::terminate
    self,   \* optional<Layout> the caller holds: the result of the last call
    op,     \* name of the last call
    recv,   \* receiver (*this) of the last call
    arg,    \* arguments of the last call
    ret,    \* result of the last call
    fn,     \* SpecArith: name of the utility last called
    x,      \* SpecArith: its first operand
    y,      \* SpecArith: its second operand
    res     \* SpecArith: its result, as optional<size_t>

layoutVars == <<mode, pc, self, op, recv, arg, ret>>
arithVars == <<fn, x, y, res>>
vars == <<mode, pc, self, op, recv, arg, ret, fn, x, y, res>>

Arg(size, align, n) == [size |-> size, align |-> align, n |-> n]
NoArg == Arg(0, 0, 0)

\* the Layout values a caller can pass as `after`
AfterLayouts(m) ==
    {Layout(s, a) : <<s, a>> \in
        {p \in AfterSizes \X AfterAligns : m = "fn" \/ from_size_align(p[1], p[2]).has}}

InitCall ==
    /\ pc = "ready"
    /\ op = "init"
    /\ recv = Layout(0, 0)
    /\ arg = NoArg
    /\ ret = Absent

InitArith ==
    /\ fn = "init"
    /\ x = 0
    /\ y = 0
    /\ res = NoneSz

\* the caller holds no Layout yet.  It obtains one from a constructor and calls
\* the member functions on what they return; a caller that is handed the absent
\* result gives the construction up.
Init ==
    /\ mode = "api"
    /\ self = NoLayout
    /\ InitCall
    /\ InitArith

\* the receiver is any Layout(size, align) of the private constructor (or none,
\* for the static functions)
InitFn ==
    /\ mode = "fn"
    /\ \/ self = NoLayout
       \/ \E size \in WordVals, align \in ArgAligns : self = SomeLayout(Layout(size, align))
    /\ InitCall
    /\ InitArith

\* a call that returns: the caller keeps the returned optional.  In mode "fn"
\* each function is applied once to the inputs drawn.
After(result) ==
    IF result.thrown THEN "terminated"
    ELSE IF mode = "fn" THEN "done" ELSE "ready"

Return(name, r, a, result) ==
    /\ op' = name
    /\ recv' = r
    /\ arg' = a
    /\ ret' = result
    /\ pc' = After(result)
    /\ self' = IF result.has THEN SomeLayout(result.layout) ELSE NoLayout
    /\ UNCHANGED <<mode, fn, x, y, res>>

FromSizeAlign ==
    /\ pc = "ready"
    /\ op = "init"
    /\ ~self.has
    /\ \E size \in ArgSizes, align \in ArgAligns :
          Return("from_size_align", Layout(0, 0), Arg(size, align, 0),
                 OfOptional(from_size_align(size, align)))

Create ==
    /\ pc = "ready"
    /\ op = "init"
    /\ ~self.has
    /\ \E T \in Types :
          Return("create", Layout(0, 0), Arg(size_align(T)[1], size_align(T)[2], 0),
                 OfOptional(create(T)))

DefaultCtor ==
    /\ pc = "ready"
    /\ op = "init"
    /\ ~self.has
    /\ Return("Layout", Layout(0, 0), NoArg, Ret(TRUE, DefaultLayout, 0))

AlignTo ==
    /\ pc = "ready"
    /\ self.has
    /\ \E align \in ArgAligns :
          Return("align_to", self.val, Arg(0, align, 0), OfOptional(align_to(self.val, align)))

\* required_padding returns a size_t; the caller keeps its Layout
RequiredPadding ==
    /\ pc = "ready"
    /\ self.has
    /\ \E align \in ArgAligns :
          /\ op' = "required_padding"
          /\ recv' = self.val
          /\ arg' = Arg(0, align, 0)
          /\ ret' = Ret(TRUE, self.val, required_padding(self.val, align))
          /\ pc' = After(ret')
          /\ UNCHANGED <<mode, self, fn, x, y, res>>

PadToAlign ==
    /\ pc = "ready"
    /\ self.has
    /\ Return("pad_to_align", self.val, NoArg, pad_to_align(self.val))

Repeat ==
    /\ pc = "ready"
    /\ self.has
    /\ \E n \in Counts :
          Return("repeat", self.val, Arg(0, 0, n), repeat(self.val, n))

RepeatPacked ==
    /\ pc = "ready"
    /\ self.has
    /\ \E n \in Counts :
          Return("repeat_packed", self.val, Arg(0, 0, n), repeat_packed(self.val, n))

Extend ==
    /\ pc = "ready"
    /\ self.has
    /\ \E after \in AfterLayouts(mode) :
          Return("extend", self.val, Arg(after.size, after.align, 0), extend(self.val, after))

ExtendPacked ==
    /\ pc = "ready"
    /\ self.has
    /\ \E after \in AfterLayouts(mode) :
          Return("extend_packed", self.val, Arg(after.size, after.align, 0),
                 extend_packed(self.val, after))

Next ==
    \/ FromSizeAlign
    \/ Create
    \/ DefaultCtor
    \/ AlignTo
    \/ RequiredPadding
    \/ PadToAlign
    \/ Repeat
    \/ RepeatPacked
    \/ Extend
    \/ ExtendPacked

Spec == Init /\ [][Next]_vars

SpecFn == InitFn /\ [][Next]_vars

\* --------------------------------------------------- the utilities, called alone
\* each utility is applied once to a pair of operands
Call(name, a, b, result) ==
    /\ fn' = name
    /\ x' = a
    /\ y' = b
    /\ res' = result
    /\ UNCHANGED layoutVars

CheckedAdd ==
    /\ fn = "init"
    /\ \E a \in AllWords, b \in AllWords : Call("checked_add", a, b, checked_add(a, b))

CheckedMul ==
    /\ fn = "init"
    /\ \E a \in AllWords, b \in AllWords : Call("checked_mul", a, b, checked_mul(a, b))

WrapAdd ==
    /\ fn = "init"
    /\ \E a \in AllWords, b \in AllWords : Call("wrap_add", a, b, SomeSz(wrap_add(a, b)))

WrapSub ==
    /\ fn = "init"
    /\ \E a \in AllWords, b \in AllWords : Call("wrap_sub", a, b, SomeSz(wrap_sub(a, b)))

\* the check lambda of checked_add, applied to the raw sum as checked_op does
AddCheckLambda ==
    /\ fn = "init"
    /\ \E a \in AllWords, b \in AllWords :
          Call("add_check_lambda", a, b, add_check_lambda(UAdd(a, b), a, b))

NextArith ==
    \/ CheckedAdd
    \/ AddCheckLambda
    \/ CheckedMul
    \/ WrapAdd
    \/ WrapSub

SpecArith == Init /\ [][NextArith]_vars

\* ------------------------------------------------------------------ claims
\* what the documentation means by a power of two, a well-formed Layout, the
\* rounded-up size and the minimal padding (exact integers, no wrapping)
IsPow2(n) == \E k \in 0..(Bits - 1) : n = TwoPow(k)
WellFormed(l) ==
    /\ l.align > 0
    /\ IsPow2(l.align)
    /\ l.size <= MAX_SIZE - (l.align - 1)
RoundUp(size, align) == ((size + align - 1) \div align) * align
MinPadding(size, align) == RoundUp(size, align) - size

ArgLayout == Layout(arg.size, arg.align)
ReturnsLayout == ~ret.thrown /\ ret.has
ValidatedOps == {"from_size_align", "create", "align_to", "pad_to_align",
                 "repeat", "repeat_packed", "extend", "extend_packed"}

\* C1: every Layout returned by from_size_align / create<T> and by any sequence
\* of align_to, pad_to_align, repeat, repeat_packed, extend, extend_packed that
\* starts from one has align > 0, align a power of two and
\* size <= MAX_SIZE - (align - 1).
C1_ReturnedLayoutWellFormed ==
    (op \in ValidatedOps /\ ReturnsLayout) => WellFormed(ret.layout)

\* C2: from_size_align returns the absent result whenever align is zero or not
\* a power of two, and so do align_to and create<T>, which delegate to it.
C2_RejectsBadAlign ==
    /\ (op \in {"from_size_align", "create"} /\ ~IsPow2(arg.align)) => ~ret.has
    /\ (op = "align_to" /\ ~IsPow2(Max(recv.align, arg.align))) => ~ret.has

\* C3: for a power-of-two align and size <= MAX_SIZE - (align - 1),
\* from_size_align (and create<T>) succeeds and returns exactly Layout{size, align}.
C3_AcceptsValid ==
    (op \in {"from_size_align", "create"} /\ WellFormed(ArgLayout))
        => (ReturnsLayout /\ ret.layout = ArgLayout)

\* C4: for align >= 1, from_size_align returns the absent result whenever
\* size > MAX_SIZE - (align - 1); (MAX_SIZE, 2) fails and (MAX_SIZE, 1) succeeds.
C4_SizeBound ==
    (op = "from_size_align" /\ arg.align >= 1)
        => /\ (arg.size > MAX_SIZE - (arg.align - 1)) => ~ret.has
           /\ (arg.size = MAX_SIZE /\ arg.align = 2) => ~ret.has
           /\ (arg.size = MAX_SIZE /\ arg.align = 1) => ret.has

\* C5: checked_add(x, y) is absent if and only if x + y >= 2^w, and otherwise
\* holds the exact sum.
C5_CheckedAddExact ==
    (fn = "checked_add")
        => /\ ~res.has <=> (x + y >= Modulus)
           /\ res.has => res.val = x + y

\* C6: checked_mul(x, y) is absent if and only if x * y >= 2^w, and otherwise
\* holds the exact product.
C6_CheckedMulExact ==
    (fn = "checked_mul")
        => /\ ~res.has <=> (x * y >= Modulus)
           /\ res.has => res.val = x * y

\* C7: required_padding(a), for a power-of-two a with size <= MAX_SIZE - (a - 1),
\* is the minimal p >= 0 with (size + p) % a = 0.
C7_RequiredPaddingMinimal ==
    (op = "required_padding" /\ WellFormed(Layout(recv.size, arg.align)))
        => ret.aux = MinPadding(recv.size, arg.align)

\* C8: pad_to_align() on a well-formed Layout {s, a} returns a Layout with
\* align a and size the smallest multiple of a that is >= s.
C8_PadToAlign ==
    (op = "pad_to_align" /\ WellFormed(recv))
        => /\ ReturnsLayout
           /\ ret.layout = Layout(RoundUp(recv.size, recv.align), recv.align)
           /\ ret.layout.size >= recv.size

\* C9: extend(after) on well-formed layouts, when no sum overflows and the
\* result validates, returns (L, offset) with L.align = max of the aligns,
\* offset = self.size rounded up to that align, L.size = offset + after.size.
C9_Extend ==
    LET new_align == Max(recv.align, arg.align)
        offset == RoundUp(recv.size, new_align)
        new_size == offset + arg.size
    IN  (/\ op = "extend"
         /\ WellFormed(recv)
         /\ WellFormed(ArgLayout)
         /\ WellFormed(Layout(new_size, new_align)))
            => /\ ReturnsLayout
               /\ ret.layout = Layout(new_size, new_align)
               /\ ret.aux = offset

\* C10: repeat(n) on a well-formed Layout {s, a}, when stride * n fits, returns
\* (L, stride) with stride = s rounded up to a, L.size = stride * n, L.align = a.
C10_Repeat ==
    LET stride == RoundUp(recv.size, recv.align)
    IN  (/\ op = "repeat"
         /\ WellFormed(recv)
         /\ stride * arg.n <= MAX_SIZE)
            => /\ ReturnsLayout
               /\ ret.aux = stride
               /\ ret.layout = Layout(stride * arg.n, recv.align)

\* C11: no Layout operation throws or aborts: every call of from_size_align,
\* align_to, pad_to_align, repeat, repeat_packed, extend, extend_packed completes
\* by returning a value or the absent result; pad_to_align and repeat never
\* unwrap an absent from_size_align result.
C11_NoTermination ==
    (op \in ValidatedOps) => (~ret.thrown /\ pc # "terminated")

\* C12: overflow in composition is reported, never wrapped: whenever the exact
\* value of self.size + padding or offset + after.size (extend), of
\* self.size + after.size (extend_packed), of stride * n (repeat) or of
\* self.size * n (repeat_packed) exceeds MAX_SIZE, the operation returns the
\* absent result.
C12_OverflowReported ==
    LET padding == required_padding(recv, Max(recv.align, arg.align))
        stride == recv.size + required_padding(recv, recv.align)
        overflows ==
            \/ op = "extend" /\ recv.size + padding + arg.size > MAX_SIZE
            \/ op = "extend_packed" /\ recv.size + arg.size > MAX_SIZE
            \/ op = "repeat" /\ stride * arg.n > MAX_SIZE
            \/ op = "repeat_packed" /\ recv.size * arg.n > MAX_SIZE
    IN  overflows => (~ret.thrown /\ ~ret.has)

\* C13: align_to(new_align) on a well-formed Layout {s, a} returns
\* Layout {s, max(a, new_align)} when max(a, new_align) is a power of two and
\* s <= MAX_SIZE - (max(a, new_align) - 1), and the absent result otherwise.
C13_AlignTo ==
    LET target == Layout(recv.size, Max(recv.align, arg.align))
    IN  (op = "align_to" /\ WellFormed(recv))
            => IF WellFormed(target)
               THEN ReturnsLayout /\ ret.layout = target
               ELSE ~ret.has

\* C14: the packed variants insert no padding and keep the receiver's alignment:
\* on well-formed layouts, whenever the sum / product fits and validates,
\* extend_packed(after) returns Layout {self.size + after.size, self.align} and
\* repeat_packed(n) returns Layout {self.size * n, self.align}.
C14_Packed ==
    LET sum == Layout(recv.size + arg.size, recv.align)
        product == Layout(recv.size * arg.n, recv.align)
    IN  /\ (op = "extend_packed" /\ WellFormed(recv) /\ WellFormed(ArgLayout) /\ WellFormed(sum))
              => (ReturnsLayout /\ ret.layout = sum)
        /\ (op = "repeat_packed" /\ WellFormed(recv) /\ WellFormed(product))
              => (ReturnsLayout /\ ret.layout = product)

\* C15: pad_to_align is idempotent: for every well-formed Layout l,
\* l.pad_to_align().pad_to_align() has the size and align of l.pad_to_align().
C15_PadIdempotent ==
    (op = "pad_to_align" /\ WellFormed(recv))
        => /\ ReturnsLayout
           /\ ~pad_to_align(ret.layout).thrown
           /\ pad_to_align(ret.layout).layout = ret.layout

\* C16: the wrapping primitives compute modulo the integer width:
\* wrap_add(x, y) = (x + y) mod 2^w and wrap_sub(x, y) = (x - y) mod 2^w; in
\* particular wrap_add(x, y) = x + y whenever x + y < 2^w.
C16_WrapModWidth ==
    /\ (fn = "wrap_add") => res.val = (x + y) % Modulus
    /\ (fn = "wrap_sub") => res.val = (x - y) % Modulus

\* C17: a Layout comes into existence only through the validating constructor:
\* no operation of the public interface, the public constructors of Layout
\* included, yields a Layout that did not pass the validation, so no caller
\* holds a Layout with align = 0.  Stated of the Layouts the public constructors
\* (Layout() and create<T>) hand to the caller, which no private call precedes.
C17_NoZeroAlignHeld ==
    (op \in {"Layout", "create"} /\ self.has) => self.val.align # 0

\* C19: the overflow predicate of checked_add is exact over the whole input
\* space: with res = (x + y) mod 2^w, res < (x | y) is true (the check lambda
\* returns the empty optional) if and only if x + y >= 2^w; otherwise the lambda
\* holds the exact sum.
C19_OverflowTestExact ==
    (fn = "add_check_lambda")
        => /\ ~res.has <=> (x + y >= Modulus)
           /\ res.has => res.val = x + y

\* C19 witness: the lambda has been applied to a pair whose sum overflows and
\* has flagged it
C19_Witness ==
    /\ fn = "add_check_lambda"
    /\ x = MAX_SIZE
    /\ y = 1
    /\ ~res.has

=============================================================================
